---- MODULE Spec2Model ----
(***************************************************************************)
(* A model of sage.manifolds.differentiable.pseudo_riemannian_submanifold: *)
(* the lazily cached derived quantities of a PseudoRiemannianSubmanifold   *)
(* (slots and cached_method memos), clear_cache, the projections, and the  *)
(* breadth-first propagation of the unit normal over the atlas; and of the *)
(* element methods of sage.categories.filtered_modules_with_basis and      *)
(* filtered_algebras_with_basis.                                           *)
(*                                                                         *)
(* The specifications of the module:                                       *)
(*   Spec       the cache machine: every public method is one atomic       *)
(*              action (the program is single-threaded), nested accessor   *)
(*              calls included.                                            *)
(*   SpecProj   project and mixed_projection on every tensor type and      *)
(*              index argument within the bounds.                          *)
(*   SpecKeep   the caller keeps the object it got right before            *)
(*              clear_cache() and compares it with the next one.           *)
(*   SpecCurv   the curvatures for every dimension, start index and set of *)
(*              top charts; SpecUnit the length of the normal.             *)
(*   SpecNew    the constructor, then methods of the object it made.       *)
(*   SpecFiltered the element methods of filtered modules and algebras     *)
(*              with basis, on every element and grading.                  *)
(*   SpecNormal the loops of normal() in the unfoliated case, one action   *)
(*              per loop step, over every atlas within the bounds;         *)
(*              SpecNormalFair is the same, run until it returns.          *)
(*                                                                         *)
(* Library behaviour that the source relies on and that is assumed here:   *)
(* tensor algebra calls return; with a foliation declared the adapted      *)
(* chart exists; manifold.metric() hands out the manifold's one metric     *)
(* object (the doctests set components on M.metric() and read them back    *)
(* through N.ambient_metric()).                                            *)
(***************************************************************************)
EXTENDS Integers, Sequences, FiniteSets, TLC

\* Number of charts of the atlas in the cache machine.
NCharts == 2
\* Object identities available per allocation site.
MaxIds == 3
\* Largest tensor rank handed to project and mixed_projection.
MaxRank == 2
\* Longest list of indices handed to mixed_projection.
MaxListLen == 2
\* Where the count of assignments to the attribute of a form stops.
MaxComputed == 2
\* Largest dimension of the submanifold.
MaxDim == 3
\* Largest start index of the index range of the submanifold.
MaxStart == 1
\* Largest absolute value of the metric square of the normal direction.
MaxNorm == 2

Charts == 1..NCharts

VARIABLES
    dim_foliation,      \* self._dim_foliation (0: no foliation declared)
    embedded,           \* self._embedded
    ambient_structure,  \* ambient._structure.name
    sgn,                \* self._sgn
    top,                \* the charts of the atlas that are top charts
    dim,                \* self._dim
    sindex,             \* self._sindex, the start_index of the constructor
    gvv,                \* g(v, v) at a point, v the normal direction before
                        \* it is normalised: gradt() with a foliation,
                        \* n_comp of calc_normal without
    slot,               \* the attributes self._difft ... self._shape_operator
    memo,               \* the caches of the cached_method accessors
    pslot,              \* self._principal_directions / _principal_curvatures
    pmemo,              \* caches of principal_directions / principal_curvatures
    computed,           \* per fundamental form: assignments of its attribute
                        \* to a tensor since construction or clear_cache()
    last,               \* outcome of the last public call
    tensor,             \* tensor_type() of the tensor the caller projects
    indices             \* the "indices" argument the caller passes

cvars == <<dim_foliation, embedded, ambient_structure, sgn, top, dim, sindex,
          gvv>>
cachevars == <<slot, memo, pslot, pmemo, computed>>

(***************************************************************************)
(* Objects.  An object is <<allocation site, chart, serial>>; two objects  *)
(* are identical (Python "is") iff the triples are equal.                  *)
(***************************************************************************)
None == <<"None", 0, 0>>

SlotNames == {"difft", "gradt", "normal", "lapse", "shift",
              "first_fundamental_form", "ambient_first_fundamental_form",
              "second_fundamental_form", "ambient_second_fundamental_form",
              "ambient_metric", "projector", "gauss_curvature",
              "mean_curvature", "shape_operator"}

MemoNames == {"difft", "gradt", "normal", "lapse", "shift", "projector",
              "gauss_curvature", "mean_curvature", "shape_operator"}

PNames == {"principal_directions", "principal_curvatures"}

Structures == {"Riemannian", "Lorentzian", "differentiable"}

\* isinstance(self._ambient, PseudoRiemannianManifold)
AmbientIsPseudoRiemannian == ambient_structure \in {"Riemannian", "Lorentzian"}

\* The metric object of the ambient manifold, self._ambient.metric().
AmbientG == <<"ambient.metric", 0, 1>>
\* The metric object of the submanifold itself, self.metric().
SelfMetric == <<"self.metric", 0, 1>>

\* The calls made since the caller's call began: the functions that are
\* running, innermost last (stack), who called whom (calls), and whether a
\* function was called while it was running (reentered).
NoTrace == [stack |-> <<>>, calls |-> {}, reentered |-> FALSE]

\* The cache part of the state as one value, threaded through nested calls,
\* at the moment the caller calls a method.
Cache == [slot |-> slot, memo |-> memo, pslot |-> pslot, pmemo |-> pmemo,
          computed |-> computed, trace |-> NoTrace]

\* The four fundamental forms, each held in an attribute of its own.
FundamentalForms == {"first_fundamental_form",
                     "ambient_first_fundamental_form",
                     "second_fundamental_form",
                     "ambient_second_fundamental_form"}
NotComputed == [q \in FundamentalForms |-> 0]

EmptySlots == [q \in SlotNames |-> None]
EmptyMemos == [q \in MemoNames |-> None]
EmptyP == [p \in PNames |-> [c \in Charts |-> None]]

Live(s) == {s.slot[q] : q \in SlotNames} \cup {s.memo[q] : q \in MemoNames}
           \cup {s.pslot[p][c] : p \in PNames, c \in Charts}
           \cup {s.pmemo[p][c] : p \in PNames, c \in Charts}
           \cup {last.ret, last.kept[3]}

\* A newly allocated object: distinct from every object still referenced,
\* by the submanifold or by the caller.
Fresh(s, site, c) ==
    LET free == {i \in 1..MaxIds : <<site, c, i>> \notin Live(s)}
    IN <<site, c, CHOOSE i \in free : \A j \in free : i <= j>>

Ok(s, r) == [s |-> s, r |-> r, e |-> "ok"]
Raise(s, e) == [s |-> s, r |-> None, e |-> e]

FoliationNeeded == "A foliation is needed to perform this calculation"
NotEmbedded == "Submanifold must be embedded in a pseudo-Riemannian manifold"
TooMuch == "Too much contractions"
TwoContravariant == "contraction on two contravariant indices not permitted"
TwoCovariant == "contraction on two covariant indices not permitted"
OutOfRange == "contraction on an index position the tensor does not have"
NoContract == "'int' object has no attribute 'contract'"
MatrixIndex == "matrix index out of range"

\* self._q = v; the assignments to the attribute of a form are counted.
SetSlot(s, q, v) ==
    IF q \in FundamentalForms
    THEN [s EXCEPT !.slot[q] = v,
                   !.computed[q] = IF @ < MaxComputed THEN @ + 1 ELSE @]
    ELSE [s EXCEPT !.slot[q] = v]

\* sage.misc.cachefunc.cached_method: a stored value is returned as is; a
\* value is stored only when the body returns, never when it raises.
Cached(s, q, body) ==
    IF body.e = "ok" THEN [body EXCEPT !.s.memo[q] = body.r] ELSE body


(***************************************************************************)
(* The accessors.  Each takes the cache s and yields [s, r, e]: the cache  *)
(* after the call, the object returned, and "ok" or the error raised.      *)
(* Then(r, K) is sequencing: the rest K of a body runs on the cache that   *)
(* the request r left, unless r raised.                                    *)
(***************************************************************************)

Then(r, K(_)) == IF r.e # "ok" THEN r ELSE K(r.s)

\* q is called: by the function running, or by the caller of the method.
Enter(s, q) ==
    [s EXCEPT !.trace =
        [stack |-> Append(@.stack, q),
         calls |-> @.calls \cup {<<IF @.stack = <<>> THEN "caller"
                                   ELSE @.stack[Len(@.stack)], q>>},
         reentered |-> @.reentered \/ \E i \in 1..Len(@.stack) : @.stack[i] = q]]

\* The function running returns or raises.
Leave(r) == [r EXCEPT !.s.trace.stack = SubSeq(@, 1, Len(@) - 1)]

\* The call of q with the body Body.
Traced(s, q, Body(_)) == Leave(Body(Enter(s, q)))

\* self._q = v ... return self._q
Store(s, q, v) == Ok(SetSlot(s, q, v), v)

\* return self._q
ReturnSlot(s, q) == Ok(s, s.slot[q])

\* Variant: the attribute is assigned before the embedding is checked.
ambient_metric_store_first(s) ==
    IF s.slot["ambient_metric"] = None
    THEN IF ~embedded \/ ~AmbientIsPseudoRiemannian
         THEN Raise(SetSlot(s, "ambient_metric", AmbientG), NotEmbedded)
         ELSE Store(s, "ambient_metric", AmbientG)
    ELSE ReturnSlot(s, "ambient_metric")

ambient_metric(s) ==
    Traced(s, "ambient_metric", LAMBDA t :
    IF t.slot["ambient_metric"] = None
    THEN IF ~embedded \/ ~AmbientIsPseudoRiemannian
         THEN Raise(t, NotEmbedded)
         ELSE Store(t, "ambient_metric", AmbientG)
    ELSE ReturnSlot(t, "ambient_metric"))

\* The attribute is assigned self.metric() before ambient_metric() is asked.
first_fundamental_form_compute(s) ==
    Then(ambient_metric(SetSlot(s, "first_fundamental_form", SelfMetric)),
         LAMBDA s1 : ReturnSlot(s1, "first_fundamental_form"))

first_fundamental_form(s) ==
    Traced(s, "first_fundamental_form", LAMBDA t :
    IF t.slot["first_fundamental_form"] = None
    THEN first_fundamental_form_compute(t)
    ELSE ReturnSlot(t, "first_fundamental_form"))

difft_compute(s) ==
    IF dim_foliation = 0
    THEN Raise(s, FoliationNeeded)
    ELSE Store(s, "difft", Fresh(s, "difft", 0))

difft(s) ==
    Traced(s, "difft", LAMBDA t :
    IF t.memo["difft"] # None THEN Ok(t, t.memo["difft"])
    ELSE Cached(t, "difft", difft_compute(t)))

\* Variant: the ambient metric is requested before the foliation is checked.
gradt_check_late(s) ==
    Then(ambient_metric(s), LAMBDA s1 :
         IF dim_foliation = 0
         THEN Raise(s1, FoliationNeeded)
         ELSE Then(difft(s1), LAMBDA s2 :
                   Store(s2, "gradt", Fresh(s2, "gradt", 0))))

gradt_compute(s) ==
    IF dim_foliation = 0
    THEN Raise(s, FoliationNeeded)
    ELSE Then(ambient_metric(s), LAMBDA s1 :
         Then(difft(s1), LAMBDA s2 :
         Store(s2, "gradt", Fresh(s2, "gradt", 0))))

gradt(s) ==
    Traced(s, "gradt", LAMBDA t :
    IF t.memo["gradt"] # None THEN Ok(t, t.memo["gradt"])
    ELSE Cached(t, "gradt", gradt_compute(t)))

lapse_compute(s) ==
    IF dim_foliation = 0
    THEN Raise(s, FoliationNeeded)
    ELSE Then(ambient_metric(s), LAMBDA s1 :
         Then(gradt(s1), LAMBDA s2 :
         Then(gradt(s2), LAMBDA s3 :
         Store(s3, "lapse", Fresh(s3, "lapse", 0)))))

lapse(s) ==
    Traced(s, "lapse", LAMBDA t :
    IF t.memo["lapse"] # None THEN Ok(t, t.memo["lapse"])
    ELSE Cached(t, "lapse", lapse_compute(t)))

\* calc_normal(chart): the first request of ambient_metric() of the
\* unfoliated normal().
calc_normal(s) ==
    Traced(s, "calc_normal", LAMBDA t : ambient_metric(t))

\* "start breadth-first graph exploration": calc_normal on the first top
\* chart, if there is one.
breadth_first(s) ==
    Traced(s, "breadth_first", LAMBDA t :
    IF top = {} THEN Ok(t, None) ELSE calc_normal(t))

\* Variant: with a foliation the normal is built by calc_normal as well.
normal_foliated_and_calc_normal(s) ==
    Then(lapse(s), LAMBDA s1 :
    Then(gradt(s1), LAMBDA s2 :
    Then(calc_normal(s2), LAMBDA s3 :
    Store(s3, "normal", Fresh(s3, "normal", 0)))))

\* normal(), case foliation: sgn * lapse() * gradt().
normal_foliated(s) ==
    Then(lapse(s), LAMBDA s1 :
    Then(gradt(s1), LAMBDA s2 :
    Store(s2, "normal", Fresh(s2, "normal", 0))))

\* normal(), case no foliation: the vector field is created and stored in
\* the slot first; calc_normal on the first top chart is the first request
\* of ambient_metric().  The traversal itself (SpecNormal) only fills the
\* components of that one object.
normal_unfoliated(s) ==
    Then(Store(s, "normal", Fresh(s, "normal", 0)), LAMBDA s1 :
    Then(breadth_first(s1), LAMBDA s2 :
    ReturnSlot(s2, "normal")))

normal_compute(s) ==
    IF dim_foliation # 0 THEN normal_foliated(s) ELSE normal_unfoliated(s)

\* Variant: normal() without the cached_method decorator.
normal_undecorated(s) == Cached(s, "normal", normal_compute(s))

normal(s) ==
    Traced(s, "normal", LAMBDA t :
    IF t.memo["normal"] # None THEN Ok(t, t.memo["normal"])
    ELSE Cached(t, "normal", normal_compute(t)))

shift_compute(s) ==
    IF dim_foliation = 0
    THEN Raise(s, FoliationNeeded)
    ELSE Then(lapse(s), LAMBDA s1 :
         Then(normal(s1), LAMBDA s2 :
         Store(s2, "shift", Fresh(s2, "shift", 0))))

shift(s) ==
    Traced(s, "shift", LAMBDA t :
    IF t.memo["shift"] # None THEN Ok(t, t.memo["shift"])
    ELSE Cached(t, "shift", shift_compute(t)))

ambient_first_fundamental_form_compute(s) ==
    Then(ambient_metric(s), LAMBDA s1 :
    Then(normal(s1), LAMBDA s2 :
    Then(normal(s2), LAMBDA s3 :
    Store(s3, "ambient_first_fundamental_form",
          Fresh(s3, "ambient_first_fundamental_form", 0)))))

ambient_first_fundamental_form(s) ==
    Traced(s, "ambient_first_fundamental_form", LAMBDA t :
    IF t.slot["ambient_first_fundamental_form"] = None
    THEN ambient_first_fundamental_form_compute(t)
    ELSE ReturnSlot(t, "ambient_first_fundamental_form"))

RECURSIVE second_fundamental_form(_)

\* ambient_second_fundamental_form, no foliation: the tensor field is
\* created and stored in the slot before second_fundamental_form() is asked.
ambient_second_fundamental_form_unfoliated(s) ==
    Then(Store(s, "ambient_second_fundamental_form",
               Fresh(s, "ambient_second_fundamental_form", 0)), LAMBDA s1 :
    Then(second_fundamental_form(s1), LAMBDA s2 :
    Then(ambient_metric(s2), LAMBDA s3 :
    ReturnSlot(s3, "ambient_second_fundamental_form"))))

\* ambient_second_fundamental_form, foliation: built from the connection of
\* the ambient metric and normal(), stored when the expression is complete.
ambient_second_fundamental_form_foliated(s) ==
    Then(ambient_metric(s), LAMBDA s1 :
    Then(normal(s1), LAMBDA s2 :
    Store(s2, "ambient_second_fundamental_form",
          Fresh(s2, "ambient_second_fundamental_form", 0))))

ambient_second_fundamental_form_compute(s) ==
    IF dim_foliation = 0
    THEN ambient_second_fundamental_form_unfoliated(s)
    ELSE ambient_second_fundamental_form_foliated(s)

\* Variant: the form is built at every request, held or not.
ambient_second_fundamental_form_unguarded(s) ==
    ambient_second_fundamental_form_compute(s)

ambient_second_fundamental_form(s) ==
    Traced(s, "ambient_second_fundamental_form", LAMBDA t :
    IF t.slot["ambient_second_fundamental_form"] = None
    THEN ambient_second_fundamental_form_compute(t)
    ELSE ReturnSlot(t, "ambient_second_fundamental_form"))

\* second_fundamental_form, foliation: the components of resu are read off
\* ambient_extrinsic_curvature() in the adapted chart; resu is stored last.
second_fundamental_form_foliated(s) ==
    Then(ambient_second_fundamental_form(s), LAMBDA s1 :
    Then(ambient_second_fundamental_form(s1), LAMBDA s2 :
    Store(s2, "second_fundamental_form",
          Fresh(s2, "second_fundamental_form", 0))))

\* Variant: without a foliation the form is read off the ambient one.
second_fundamental_form_through_ambient(s) ==
    Then(ambient_second_fundamental_form(s), LAMBDA s1 :
    Store(s1, "second_fundamental_form",
          Fresh(s1, "second_fundamental_form", 0)))

\* second_fundamental_form, no foliation: per chart from the Jacobians of
\* the immersion and of normal(); resu is stored last.
second_fundamental_form_unfoliated(s) ==
    Then(ambient_metric(s), LAMBDA s1 :
    Then(normal(s1), LAMBDA s2 :
    Store(s2, "second_fundamental_form",
          Fresh(s2, "second_fundamental_form", 0))))

\* Variant: without a foliation the second fundamental form is refused.
second_fundamental_form_foliation_only(s) ==
    IF dim_foliation # 0
    THEN second_fundamental_form_foliated(s)
    ELSE Raise(s, FoliationNeeded)

second_fundamental_form_compute(s) ==
    IF dim_foliation # 0
    THEN second_fundamental_form_foliated(s)
    ELSE second_fundamental_form_unfoliated(s)

second_fundamental_form(s) ==
    Traced(s, "second_fundamental_form", LAMBDA t :
    IF t.slot["second_fundamental_form"] = None
    THEN second_fundamental_form_compute(t)
    ELSE ReturnSlot(t, "second_fundamental_form"))

projector_compute(s) ==
    Then(ambient_metric(s), LAMBDA s1 :
    Then(ambient_first_fundamental_form(s1), LAMBDA s2 :
    Store(s2, "projector", Fresh(s2, "projector", 0))))

projector(s) ==
    Traced(s, "projector", LAMBDA t :
    IF t.memo["projector"] # None THEN Ok(t, t.memo["projector"])
    ELSE Cached(t, "projector", projector_compute(t)))

shape_operator_compute(s) ==
    Then(second_fundamental_form(s), LAMBDA s1 :
    Then(first_fundamental_form(s1), LAMBDA s2 :
    Store(s2, "shape_operator", Fresh(s2, "shape_operator", 0))))

shape_operator(s) ==
    Traced(s, "shape_operator", LAMBDA t :
    IF t.memo["shape_operator"] # None THEN Ok(t, t.memo["shape_operator"])
    ELSE Cached(t, "shape_operator", shape_operator_compute(t)))

gauss_curvature_compute(s) ==
    Then(shape_operator(s), LAMBDA s1 :
    Store(s1, "gauss_curvature", Fresh(s1, "gauss_curvature", 0)))

\* Variant: the determinant is taken on the first top chart only.
gauss_curvature_first_chart ==
    [chart \in {c \in top : \A d \in top : c <= d} |->
        <<"determinant", "shape_operator", chart>>]

\* What gauss_curvature() returns: the scalar field with, on each top
\* chart, the determinant of a[chart.frame(), :, chart], a the shape
\* operator.
gauss_curvature_value ==
    [chart \in top |-> <<"determinant", "shape_operator", chart>>]

gauss_curvature(s) ==
    Traced(s, "gauss_curvature", LAMBDA t :
    IF t.memo["gauss_curvature"] # None THEN Ok(t, t.memo["gauss_curvature"])
    ELSE Cached(t, "gauss_curvature", gauss_curvature_compute(t)))

\* Variant: one cache entry, whatever the chart handed over.
CachedAt_any_chart(s, p, chart, body) ==
    IF body.e = "ok"
    THEN [body EXCEPT !.s.pmemo[p] = [c \in Charts |-> body.r]]
    ELSE body

\* cached_method with an argument: one cache entry per chart.
CachedAt(s, p, chart, body) ==
    IF body.e = "ok" THEN [body EXCEPT !.s.pmemo[p][chart] = body.r] ELSE body

\* self._principal_...[chart] = res; return res
StoreAt(s, p, chart, res) == Ok([s EXCEPT !.pslot[p][chart] = res], res)

\* self.irange(): the indices start_index .. start_index + dim - 1.
irange == [i \in 1..dim |-> sindex + i - 1]

\* a[chart.frame(), :, chart][i, j] for i, j in self.irange(): the entries
\* of a dim x dim matrix, whose rows and columns count from 0, are asked
\* for at the indices of irange().
MatrixIndexInRange == \A i \in 1..dim : irange[i] < dim

principal_directions_compute(s, chart) ==
    Then(shape_operator(s), LAMBDA s1 :
    IF ~MatrixIndexInRange
    THEN Raise(s1, MatrixIndex)
    ELSE StoreAt(s1, "principal_directions", chart,
                 Fresh(s1, "principal_directions", chart)))

principal_directions(s, chart) ==
    Traced(s, "principal_directions", LAMBDA t :
    IF t.pmemo["principal_directions"][chart] # None
    THEN Ok(t, t.pmemo["principal_directions"][chart])
    ELSE CachedAt(t, "principal_directions", chart,
                  principal_directions_compute(t, chart)))

\* What principal_curvatures(chart) returns: res[i] for i in range(dim) is
\* the scalar field of the i-th eigenvalue the solver returned, named
\* k_<next(counter)>, counter = self.irange().
principal_curvatures_value(chart) ==
    [i \in 1..dim |-> [name |-> <<"k", irange[i]>>,
                       expr |-> <<"eigenvalue", chart, i>>]]

principal_curvatures_compute(s, chart) ==
    Then(shape_operator(s), LAMBDA s1 :
    IF ~MatrixIndexInRange
    THEN Raise(s1, MatrixIndex)
    ELSE StoreAt(s1, "principal_curvatures", chart,
                 Fresh(s1, "principal_curvatures", chart)))

principal_curvatures(s, chart) ==
    Traced(s, "principal_curvatures", LAMBDA t :
    IF t.pmemo["principal_curvatures"][chart] # None
    THEN Ok(t, t.pmemo["principal_curvatures"][chart])
    ELSE CachedAt(t, "principal_curvatures", chart,
                  principal_curvatures_compute(t, chart)))

\* self.top_charts(), in the order the charts were created.
RECURSIVE SeqOfSet(_)
SeqOfSet(S) ==
    IF S = {} THEN <<>>
    ELSE <<CHOOSE x \in S : \A y \in S : x <= y>>
         \o SeqOfSet(S \ {CHOOSE x \in S : \A y \in S : x <= y})

top_charts == SeqOfSet(top)

\* The dict comprehension of mean_curvature: principal_curvatures(chart)
\* for each top chart in turn.
RECURSIVE mean_curvature_charts(_, _)
mean_curvature_charts(s, cs) ==
    IF cs = <<>> THEN Ok(s, None)
    ELSE Then(principal_curvatures(s, Head(cs)), LAMBDA s1 :
         mean_curvature_charts(s1, Tail(cs)))

\* The slot mean_curvature assigns its scalar field to.
mean_curvature_slot == "shape_operator"

mean_curvature_compute(s) ==
    Then(mean_curvature_charts(s, top_charts), LAMBDA s1 :
    Store(s1, mean_curvature_slot, Fresh(s1, "mean_curvature", 0)))

\* Variant: the sign of the signature is left out.
mean_curvature_unsigned ==
    [chart \in top |-> [sign |-> 1,
                        sum |-> principal_curvatures_value(chart),
                        over |-> dim]]

\* What mean_curvature() returns: the scalar field with, on each top
\* chart, self._sgn * sum(self.principal_curvatures(chart)) / self._dim.
mean_curvature_value ==
    [chart \in top |-> [sign |-> sgn,
                        sum |-> principal_curvatures_value(chart),
                        over |-> dim]]

mean_curvature(s) ==
    Traced(s, "mean_curvature", LAMBDA t :
    IF t.memo["mean_curvature"] # None THEN Ok(t, t.memo["mean_curvature"])
    ELSE Cached(t, "mean_curvature", mean_curvature_compute(t)))

\* The cached methods whose cache clear_cache() empties.
ClearedMemos == {"difft", "gradt", "normal", "lapse", "shift", "projector",
                 "gauss_curvature", "shape_operator"}
\* principal_directions.clear_cache(), principal_curvatures.clear_cache()
ClearedPMemos == {"principal_directions", "principal_curvatures"}
\* The attributes clear_cache() resets to None.
ClearedSlots == {"difft", "gradt", "normal", "lapse", "shift",
                 "first_fundamental_form", "ambient_first_fundamental_form",
                 "second_fundamental_form", "ambient_second_fundamental_form",
                 "ambient_metric", "projector", "gauss_curvature",
                 "mean_curvature", "shape_operator"}

clear_cache(s) ==
    [slot |-> [q \in SlotNames |-> IF q \in ClearedSlots THEN None ELSE s.slot[q]],
     memo |-> [q \in MemoNames |-> IF q \in ClearedMemos THEN None ELSE s.memo[q]],
     pslot |-> EmptyP,
     pmemo |-> [p \in PNames |-> IF p \in ClearedPMemos
                                 THEN [c \in Charts |-> None] ELSE s.pmemo[p]],
     computed |-> NotComputed,
     trace |-> s.trace]


(***************************************************************************)
(* The length of the normal, at a point.  v is the normal direction before *)
(* it is normalised and gvv = g(v, v), not 0 as the induced metric is not  *)
(* degenerate.  Numbers are fractions <<numerator, denominator>>; a square *)
(* root enters every quantity below through its square only.              *)
(***************************************************************************)

FracEq(a, b) == a[1] * b[2] = b[1] * a[2]
FracTimes(a, b) == <<a[1] * b[1], a[2] * b[2]>>
FracMinus(a, b) == <<a[1] * b[2] - b[1] * a[2], a[2] * b[2]>>
Whole(n) == <<n, 1>>

\* Variant: the lapse taken as 1 / sqrt(g(gradt, gradt)).
lapse_squared_unsigned == <<1, gvv>>

\* lapse()^2, lapse() = 1 / (sgn * g(gradt(), gradt())).sqrt()
lapse_squared == <<1, sgn * gvv>>

\* g(n, n) for n = sgn * lapse() * gradt()
normal_foliated_square ==
    FracTimes(Whole(sgn * sgn), FracTimes(lapse_squared, Whole(gvv)))

\* g(n, n) for n = n_comp / n_comp.norm(g), norm(g) = sqrt(g(n_comp, n_comp))
normal_unfoliated_square == <<gvv, gvv>>

\* g(normal(), normal())
normal_square ==
    IF dim_foliation # 0 THEN normal_foliated_square
                         ELSE normal_unfoliated_square

\* The factor c in ambient_first_fundamental_form()(n, .) = c * g(n, .),
\* from g - sgn * g.contract(n) * g.contract(n).
ambient_first_fundamental_form_on_normal ==
    FracMinus(Whole(1), FracTimes(Whole(sgn), normal_square))

\* The factor c in projector().contract(normal()) = c * normal(): the
\* inverse metric raises the index of the form above.
projector_on_normal == ambient_first_fundamental_form_on_normal

\* range(k) of Python 2: the list 0 .. k-1, empty for k <= 0.
Range(k) == [i \in 1..(IF k > 0 THEN k ELSE 0) |-> i - 1]

InList(i, l) == \E j \in 1..Len(l) : l[j] = i

(***************************************************************************)
(* Index bookkeeping of the projections.  A tensor is the sequence of its  *)
(* index positions, contravariant ones first (position 0 is element 1).    *)
(* An index is [up, kind, of]: its variance, what it belongs to and which  *)
(* one: for the tensor handed to project, kind counts the contractions     *)
(* with the projector that produced it and of is the position of the input *)
(* it stems from; for the multiprojector of mixed_projection, kind is      *)
(* "normal" or "projector" and of numbers the factor.  Tensor products and *)
(* contractions order the indices as the tensor algebra does: those of the *)
(* left operand before those of the right one, contravariant before        *)
(* covariant.                                                              *)
(***************************************************************************)

IsUp(e) == e.up
IsDown(e) == ~e.up
Ups(x) == SelectSeq(x, IsUp)
Downs(x) == SelectSeq(x, IsDown)

\* x * y, the tensor product.
TensorProduct(x, y) == Ups(x) \o Ups(y) \o Downs(x) \o Downs(y)

\* x with position i (counted from 0) taken out.
Without(x, i) == SubSeq(x, 1, i) \o SubSeq(x, i + 2, Len(x))

\* The indices of a tensor of type (p, q) as handed over by the caller.
TensorIndices(p, q) ==
    [i \in 1..(p + q) |-> [up |-> i <= p, kind |-> 0, of |-> i - 1]]

\* self.projector().contract(pos, x, i): pos 0 is the contravariant index
\* of the projector, pos 1 its covariant one; the free index of the
\* projector takes the place ahead of the remaining indices of x of its
\* variance.
projector_contract(pos, x, i) ==
    IF i >= Len(x) THEN [e |-> OutOfRange, x |-> x]
    ELSE IF pos = 0 /\ x[i + 1].up THEN [e |-> TwoContravariant, x |-> x]
    ELSE IF pos = 1 /\ ~x[i + 1].up THEN [e |-> TwoCovariant, x |-> x]
    ELSE [e |-> "ok",
          x |-> TensorProduct(<<[x[i + 1] EXCEPT !.kind = @ + 1]>>,
                              Without(x, i))]

\* for i in range(n): resu = self.projector().contract(pos, resu, i)
RECURSIVE project_loop(_, _, _, _)
project_loop(pos, r, i, n) ==
    IF i >= n \/ r.e # "ok" THEN r
    ELSE project_loop(pos, projector_contract(pos, r.x, i), i + 1, n)

\* The two loops of project on a tensor of type (p, q).
project_indices(p, q) ==
    project_loop(0, project_loop(1, [e |-> "ok", x |-> TensorIndices(p, q)],
                                 0, p),
                 0, q)

\* The factors of the multiprojector: normal(), normal().contract(g) and
\* projector(), as factor number j.
NormalVector(j) == <<[up |-> TRUE, kind |-> "normal", of |-> j]>>
NormalForm(j) == <<[up |-> FALSE, kind |-> "normal", of |-> j]>>
ProjectorFactor(j) == <<[up |-> TRUE, kind |-> "projector", of |-> j],
                        [up |-> FALSE, kind |-> "projector", of |-> j]>>

\* One loop of mixed_projection over range(n) on the multiprojector mp:
\* the factor is chosen by "i in indices", i the loop counter; lower tells
\* the loop over the contravariant indices, whose normal is contracted
\* with g; first numbers the factors.
RECURSIVE multiprojector_loop(_, _, _, _, _, _)
multiprojector_loop(mp, l, i, n, lower, first) ==
    IF i >= n THEN mp
    ELSE multiprojector_loop(
             TensorProduct(mp, IF InList(i, l)
                               THEN IF lower THEN NormalForm(first + i)
                                             ELSE NormalVector(first + i)
                               ELSE ProjectorFactor(first + i)),
             l, i + 1, n, lower, first)

\* multiprojector after both loops for a tensor of type (p, q); <<>> is
\* the integer 1 it starts as.
multiprojector(p, q, l) ==
    multiprojector_loop(multiprojector_loop(<<>>, l, 0, q, FALSE, 0),
                        l, 0, p, TRUE, q)

\* kp = 2*k - len(indices)
kp(p, q, l) == 2 * (p + q) - Len(l)

\* range(kp - tensor.tensor_type()[0], kp) + range(tensor.tensor_type()[1]):
\* the positions of the multiprojector contracted with positions 0 .. k-1
\* of the tensor.
contract_args(p, q, l) ==
    [i \in 1..p |-> kp(p, q, l) - p + i - 1] \o Range(q)

\* multiprojector.contract(*args): the error raised or, per position of
\* the tensor, the index of the multiprojector it is contracted with
\* (with), and the rank of what is returned.
mixed_contraction(p, q, l) ==
    LET mp == multiprojector(p, q, l)
        a == contract_args(p, q, l)
        k == p + q
        Fail(e) == [e |-> e, with |-> <<>>, rank |-> 0]
    IN IF k = 0 THEN Fail(NoContract)
       ELSE IF \E t \in 1..k : a[t] >= Len(mp) THEN Fail(OutOfRange)
       ELSE IF \E t \in 1..k : t <= p /\ mp[a[t] + 1].up
            THEN Fail(TwoContravariant)
       ELSE IF \E t \in 1..k : t > p /\ ~mp[a[t] + 1].up
            THEN Fail(TwoCovariant)
       ELSE [e |-> "ok", with |-> [t \in 1..k |-> mp[a[t] + 1]],
             rank |-> Len(mp) - k]

\* self.projector() requested n times in a row (the loops of project).
RECURSIVE projector_times(_, _)
projector_times(s, n) ==
    IF n = 0 THEN Ok(s, None)
    ELSE Then(projector(s), LAMBDA s1 : projector_times(s1, n - 1))

\* project(tensor) for a tensor of type (p, q): a copy of the tensor, then
\* one projector() per contravariant and per covariant index; not cached.
project(s, p, q) ==
    Then(projector_times(s, p), LAMBDA s1 :
    Then(projector_times(s1, q), LAMBDA s2 :
    IF project_indices(p, q).e # "ok"
    THEN Raise(s2, project_indices(p, q).e)
    ELSE Ok(s2, Fresh(s2, "project", 0))))

\* "indices" as handed over by the caller: an integer or a list.
IntIndices(k) == [int |-> TRUE, k |-> k, l |-> <<>>]
ListIndices(l) == [int |-> FALSE, k |-> 0, l |-> l]

\* if isinstance(indices, (Integer, int)): indices = range(indices)
IndicesList(idx) == IF idx.int THEN Range(idx.k) ELSE idx.l

\* Variant: as many contractions as the tensor has indices are refused too.
TooManyContractions_geq(l, p, q) == Len(l) >= p + q

\* The guard of mixed_projection: len(indices) > tensor.tensor_rank()
TooManyContractions(l, p, q) == Len(l) > p + q

\* One loop of mixed_projection over range(n): normal() for the positions
\* listed in indices, projector() for the others.
RECURSIVE mixed_projection_loop(_, _, _, _)
mixed_projection_loop(s, l, i, n) ==
    IF i >= n THEN Ok(s, None)
    ELSE Then(IF InList(i, l) THEN normal(s) ELSE projector(s), LAMBDA s1 :
         mixed_projection_loop(s1, l, i + 1, n))

\* mixed_projection(tensor, indices) for a tensor of type (p, q).
mixed_projection(s, p, q, idx) ==
    IF TooManyContractions(IndicesList(idx), p, q)
    THEN Raise(s, TooMuch)
    ELSE Then(ambient_metric(s), LAMBDA s1 :
         Then(mixed_projection_loop(s1, IndicesList(idx), 0, q), LAMBDA s2 :
         Then(mixed_projection_loop(s2, IndicesList(idx), 0, p), LAMBDA s3 :
         IF mixed_contraction(p, q, IndicesList(idx)).e # "ok"
         THEN Raise(s3, mixed_contraction(p, q, IndicesList(idx)).e)
         ELSE Ok(s3, Fresh(s3, "mixed_projection", 0)))))

(***************************************************************************)
(* The traversal of normal(), case no foliation: the loops that start at   *)
(* "start breadth-first graph exploration".  The atlas is built by chart() *)
(* and restrict(): a chart is a top chart or the restriction of an earlier *)
(* chart; v._supercharts is v with the charts it restricts, v._subcharts   *)
(* is v with its restrictions.  coord_changes() holds ordered pairs of      *)
(* charts: a transition map stores (c1, c2), and (c2, c1) only once its    *)
(* inverse is set.                                                         *)
(***************************************************************************)

\* Number of charts of the atlas that normal() traverses.
MaxCharts == 3
\* Largest number of transition maps declared on the atlas.
MaxMaps == 1

AtlasCharts == 1..MaxCharts

VARIABLES
    parent,         \* the chart each chart is a restriction of (0: none)
    coord_changes,  \* the keys of self.coord_changes()
    marked,         \* marked
    f,              \* the queue f
    pc,             \* "idle", "for" (the loop over top charts), "while", "done"
    ti,             \* position of the loop over self.top_charts()
    how,            \* per chart, the steps that defined its components
    puts            \* per chart, the number of f.put(chart)

nvars == <<parent, coord_changes, marked, f, pc, ti, how, puts>>

\* self.atlas(), in the order of creation.
atlas == [i \in 1..MaxCharts |-> i]

RECURSIVE supercharts(_)
supercharts(c) ==
    IF parent[c] = 0 THEN {c} ELSE {c} \cup supercharts(parent[c])

subcharts(v) == {c \in AtlasCharts : v \in supercharts(c)}

\* Variant: only the first top chart is taken up by the outer loop.
atlas_first_top_chart == <<1>>

\* self.top_charts() of the atlas that normal() traverses.
atlas_top_charts == SeqOfSet({c \in AtlasCharts : parent[c] = 0})

\* f.put(vp), the step that gives vp its components, marked.add(vp).
Visit(t, vp, kind) ==
    [marked |-> t.marked \cup {vp},
     f |-> Append(t.f, vp),
     how |-> [t.how EXCEPT ![vp] = Append(@, kind)],
     puts |-> [t.puts EXCEPT ![vp] = @ + 1]]

\* Variant: the queue is read without removing its head.
f_peek(q) == q

\* What f.get() leaves in the queue.
f_get(q) == Tail(q)

case_restriction(v, vp, m) == vp \in subcharts(v) /\ vp \notin m

case_continuation(v, vp, m) == vp \in supercharts(v) /\ vp \notin m

\* Variant: a coordinate change is followed to a marked chart as well.
case_coordinates_change_unguarded(v, vp, m) == <<v, vp>> \in coord_changes

case_coordinates_change(v, vp, m) ==
    <<v, vp>> \in coord_changes /\ vp \notin m

\* The three cases of the body of "for vp in self.atlas()".
restriction(t, v, vp) ==
    IF case_restriction(v, vp, t.marked) THEN Visit(t, vp, "restriction") ELSE t

continuation(t, v, vp) ==
    IF case_continuation(v, vp, t.marked)
    THEN Visit(t, vp, "continuation") ELSE t

coordinates_change(t, v, vp) ==
    IF case_coordinates_change(v, vp, t.marked)
    THEN Visit(t, vp, "coordinates change") ELSE t

\* The body of "for vp in self.atlas()": the three ifs in a row, each with
\* its own test of marked.
neighbor(t, v, vp) ==
    coordinates_change(continuation(restriction(t, v, vp), v, vp), v, vp)

RECURSIVE for_atlas(_, _, _)
for_atlas(t, v, i) ==
    IF i > Len(atlas) THEN t
    ELSE for_atlas(neighbor(t, v, atlas[i]), v, i + 1)

Traversal == [marked |-> marked, f |-> f, how |-> how, puts |-> puts]

SetTraversal(t) ==
    /\ marked' = t.marked
    /\ f' = t.f
    /\ how' = t.how
    /\ puts' = t.puts

\* for v in self.top_charts(): if v not in marked: put, calc_normal, add.
ForTopChart ==
    /\ pc = "for"
    /\ ti <= Len(atlas_top_charts)
    /\ LET v == atlas_top_charts[ti]
       IN IF v \notin marked
          THEN /\ SetTraversal(Visit(Traversal, v, "calc_normal"))
               /\ pc' = "while"
               /\ ti' = ti
          ELSE /\ ti' = ti + 1
               /\ UNCHANGED <<marked, f, how, puts, pc>>
    /\ UNCHANGED <<parent, coord_changes>>

\* while not f.empty(): v = f.get(); for vp in self.atlas(): ...
WhileGet ==
    /\ pc = "while"
    /\ f # <<>>
    /\ SetTraversal(for_atlas([Traversal EXCEPT !.f = f_get(f)], Head(f), 1))
    /\ UNCHANGED <<parent, coord_changes, pc, ti>>

\* f.empty(): on to the next top chart.
WhileExit ==
    /\ pc = "while"
    /\ f = <<>>
    /\ pc' = "for"
    /\ ti' = ti + 1
    /\ UNCHANGED <<parent, coord_changes, marked, f, how, puts>>

\* The loop over top charts is exhausted: "Going up from each top_chart to
\* the full manifold", return self._normal.
GoingUp ==
    /\ pc = "for"
    /\ ti > Len(atlas_top_charts)
    /\ pc' = "done"
    /\ UNCHANGED <<parent, coord_changes, marked, f, how, puts, ti>>

\* The traversal variables while no normal() is under way.
NoTraversal ==
    /\ parent = [c \in AtlasCharts |-> 0]
    /\ coord_changes = {}
    /\ marked = {}
    /\ f = <<>>
    /\ pc = "idle"
    /\ ti = 0
    /\ how = [c \in AtlasCharts |-> <<>>]
    /\ puts = [c \in AtlasCharts |-> 0]

(***************************************************************************)
(* Elements of filtered modules and algebras with basis                    *)
(* (sage.categories.filtered_modules_with_basis and                        *)
(* filtered_algebras_with_basis).  An element is the function from the     *)
(* basis indices to its coefficients; its terms are the indices with a     *)
(* coefficient other than 0.  The parent gives each basis index a degree.  *)
(* What a method hands back is [e, r]: "ok" or the ValueError raised, and  *)
(* the value.                                                              *)
(***************************************************************************)

\* Number of basis indices of the parent.
MaxBasis == 2
\* Largest absolute value of a coefficient.
MaxCoeff == 1
\* Largest degree of a basis index; the least one is -1.
MaxDegree == 1

Basis == 1..MaxBasis
Degrees == (-1)..MaxDegree

VARIABLES
    element,        \* self, an element of the parent
    grading,        \* self.parent().degree_on_basis, per basis index
    result          \* outcome of the last method called on the element

fvars == <<element, grading, result>>

ZeroDegree == "the zero element does not have a well-defined degree"
NotHomogeneous == "element is not homogeneous"
EmptySupport == "max() arg is an empty sequence"

Returns(v) == [e |-> "ok", r |-> v]
ValueError(msg) == [e |-> msg, r |-> <<>>]

\* self.parent().degree_on_basis
degree_on_basis(m) == grading[m]

\* self.support(): the indices of the terms, in the order of the basis.
support(x) == SeqOfSet({m \in Basis : x[m] # 0})

\* self.is_zero()
is_zero(x) == \A m \in Basis : x[m] = 0

\* self.leading_support(): the greatest index of the support.
leading_support(x) == support(x)[Len(support(x))]

\* The loop of is_homogeneous over the support ms; d is <<>> while degree
\* is None and <<degree>> afterwards.
RECURSIVE is_homogeneous_loop(_, _)
is_homogeneous_loop(ms, d) ==
    IF ms = <<>> THEN TRUE
    ELSE IF d = <<>>
         THEN is_homogeneous_loop(Tail(ms), <<degree_on_basis(Head(ms))>>)
         ELSE IF d # <<degree_on_basis(Head(ms))>>
              THEN FALSE
              ELSE is_homogeneous_loop(Tail(ms), d)

is_homogeneous(x) == is_homogeneous_loop(support(x), <<>>)

\* FilteredModulesWithBasis.ElementMethods.degree
degree(x) ==
    IF support(x) = <<>> THEN ValueError(ZeroDegree)
    ELSE IF ~is_homogeneous(x) THEN ValueError(NotHomogeneous)
    ELSE Returns(degree_on_basis(leading_support(x)))

\* Variant: homogeneous_degree without the test for zero.
homogeneous_degree_untested(x) ==
    IF ~is_homogeneous(x) THEN ValueError(NotHomogeneous)
    ELSE IF support(x) = <<>> THEN ValueError(EmptySupport)
    ELSE Returns(degree_on_basis(leading_support(x)))

\* FilteredAlgebrasWithBasis.ElementMethods.homogeneous_degree
homogeneous_degree(x) ==
    IF is_zero(x) THEN ValueError(ZeroDegree)
    ELSE IF ~is_homogeneous(x) THEN ValueError(NotHomogeneous)
    ELSE Returns(degree_on_basis(leading_support(x)))

\* degree = homogeneous_degree, the degree of the elements of an algebra.
algebra_degree(x) == homogeneous_degree(x)

\* max(degree_on_basis(m) for m in self.support())
RECURSIVE max_degree(_)
max_degree(ms) ==
    IF Len(ms) = 1 THEN degree_on_basis(Head(ms))
    ELSE IF degree_on_basis(Head(ms)) >= max_degree(Tail(ms))
         THEN degree_on_basis(Head(ms))
         ELSE max_degree(Tail(ms))

\* FilteredAlgebrasWithBasis.ElementMethods.maximal_degree
maximal_degree(x) ==
    IF is_zero(x) THEN ValueError(ZeroDegree)
    ELSE Returns(max_degree(support(x)))

\* The elements of the parent, and its zero.
Elements == [Basis -> (-MaxCoeff)..MaxCoeff]
zero == [m \in Basis |-> 0]

\* An element of the parent with the coefficients c, as a method returns it.
InParent(c) == [parent |-> TRUE, coeff |-> c]
\* "(i, c) for (i, c) in self": the terms of the element.
terms(x) == [j \in 1..Len(support(x)) |-> <<support(x)[j], x[support(x)[j]]>>]

\* self.parent().sum_of_terms(...): the sum of c * B[i] over the pairs
\* handed over, the zero of the parent when there is none.
RECURSIVE sum_of_terms(_)
sum_of_terms(ts) ==
    IF ts = <<>> THEN InParent(zero)
    ELSE InParent([sum_of_terms(Tail(ts)).coeff
                       EXCEPT ![Head(ts)[1]] = @ + Head(ts)[2]])

\* "... if degree_on_basis(i) == n"
RECURSIVE of_degree(_, _)
of_degree(ts, n) ==
    IF ts = <<>> THEN <<>>
    ELSE IF degree_on_basis(Head(ts)[1]) = n
         THEN <<Head(ts)>> \o of_degree(Tail(ts), n)
         ELSE of_degree(Tail(ts), n)

\* Variant: the terms of degree at most n.
below_or_equal(ts, n) ==
    SelectSeq(ts, LAMBDA tm : degree_on_basis(tm[1]) <= n)

\* "... if degree_on_basis(i) < n"
below(ts, n) ==
    SelectSeq(ts, LAMBDA tm : degree_on_basis(tm[1]) < n)

homogeneous_component(x, n) == sum_of_terms(of_degree(terms(x), n))

truncate(x, n) == sum_of_terms(below(terms(x), n))

NoResult == [op |-> "none", n |-> 0, out |-> Returns(<<>>)]

\* The element while no method of it is called.
NoElement ==
    /\ element = zero
    /\ grading = [m \in Basis |-> 0]
    /\ result = NoResult

(***************************************************************************)
(* The cache machine.                                                      *)
(*                                                                         *)
(* last is the caller's view of the latest call: the method, its chart     *)
(* argument, the object returned and the error raised.  kept is the        *)
(* reference the caller took right before clear_cache()                    *)
(* (n = N.normal(); N.clear_cache()), as <<method, chart, object>>; it is  *)
(* there while clear_cache() is the latest call and during the call that   *)
(* follows it (n is N.normal()).                                           *)
(***************************************************************************)

NoKept == <<"none", 0, None>>
NoCall == [op |-> "none", chart |-> 0, ret |-> None, err |-> "ok",
           kept |-> NoKept]

\* Variant: only a Lorentzian ambient manifold gets the sign -1.
Sgn_Lorentzian(structure) == IF structure = "Lorentzian" THEN -1 ELSE 1

\* self._sgn = 1 if ambient._structure.name == "Riemannian" else -1
Sgn(structure) == IF structure = "Riemannian" THEN 1 ELSE -1

\* The atlas of the cache machine: NCharts charts, each a top chart.
TopSets == {Charts}

\* The surface of the doctests: dimension 2, indices from 0, and a normal
\* direction whose metric square has the sign of the signature.
Sphere ==
    /\ dim = 2
    /\ sindex = 0
    /\ gvv = sgn

InitCache(tensors, args) ==
    /\ tensor \in tensors
    /\ indices \in args
    /\ dim_foliation \in {0, 1}
    /\ embedded \in BOOLEAN
    /\ ambient_structure \in Structures
    /\ sgn = Sgn(ambient_structure)
    /\ top \in TopSets
    /\ Sphere
    /\ slot = EmptySlots
    /\ memo = EmptyMemos
    /\ pslot = EmptyP
    /\ pmemo = EmptyP
    /\ computed = NotComputed
    /\ last = NoCall
    /\ NoTraversal
    /\ NoElement

Finish(op, chart, res) ==
    /\ slot' = res.s.slot
    /\ memo' = res.s.memo
    /\ pslot' = res.s.pslot
    /\ pmemo' = res.s.pmemo
    /\ computed' = res.s.computed
    /\ last' = [op |-> op, chart |-> chart, ret |-> res.r, err |-> res.e,
                kept |-> IF last.op = "clear_cache" THEN last.kept ELSE NoKept]
    /\ UNCHANGED <<cvars, tensor, indices, nvars, fvars>>

CallAmbientMetric == Finish("ambient_metric", 0, ambient_metric(Cache))
CallFirstFundamentalForm ==
    Finish("first_fundamental_form", 0, first_fundamental_form(Cache))
CallDifft == Finish("difft", 0, difft(Cache))
CallGradt == Finish("gradt", 0, gradt(Cache))
CallNormal == Finish("normal", 0, normal(Cache))
CallLapse == Finish("lapse", 0, lapse(Cache))
CallShift == Finish("shift", 0, shift(Cache))
CallAmbientFirstFundamentalForm ==
    Finish("ambient_first_fundamental_form", 0,
           ambient_first_fundamental_form(Cache))
CallAmbientSecondFundamentalForm ==
    Finish("ambient_second_fundamental_form", 0,
           ambient_second_fundamental_form(Cache))
CallSecondFundamentalForm ==
    Finish("second_fundamental_form", 0, second_fundamental_form(Cache))
CallProjector == Finish("projector", 0, projector(Cache))
CallShapeOperator == Finish("shape_operator", 0, shape_operator(Cache))
CallGaussCurvature == Finish("gauss_curvature", 0, gauss_curvature(Cache))
CallMeanCurvature == Finish("mean_curvature", 0, mean_curvature(Cache))
CallPrincipalDirections ==
    \E chart \in Charts :
        Finish("principal_directions", chart,
               principal_directions(Cache, chart))
CallPrincipalCurvatures ==
    \E chart \in Charts :
        Finish("principal_curvatures", chart,
               principal_curvatures(Cache, chart))

\* The tensor types (p, q) and the index arguments the caller hands over.
TensorTypes == {t \in (0..MaxRank) \X (0..MaxRank) : t[1] + t[2] <= MaxRank}
RECURSIVE Lists(_)
Lists(n) ==
    IF n = 0 THEN {<<>>}
    ELSE LET shorter == Lists(n - 1)
         IN shorter \cup {Append(l, i) : l \in {x \in shorter : Len(x) = n - 1},
                                         i \in 0..(MaxRank - 1)}
IndexArgs == {IntIndices(k) : k \in (-1)..(MaxRank + 1)}
             \cup {ListIndices(l) : l \in Lists(MaxListLen)}

CallProject == Finish("project", 0, project(Cache, tensor[1], tensor[2]))

CallMixedProjection ==
    Finish("mixed_projection", 0,
           mixed_projection(Cache, tensor[1], tensor[2], indices))

\* Variant: clear_cache() forgets the foliation as well.
ClearCache_foliation_too(kept) ==
    LET s == clear_cache(Cache)
    IN /\ slot' = s.slot
       /\ memo' = s.memo
       /\ pslot' = s.pslot
       /\ pmemo' = s.pmemo
       /\ computed' = s.computed
       /\ last' = [op |-> "clear_cache", chart |-> 0, ret |-> None,
                   err |-> "ok", kept |-> kept]
       /\ dim_foliation' = 0
       /\ UNCHANGED <<embedded, ambient_structure, sgn, top, dim, sindex, gvv,
                      tensor, indices, nvars, fvars>>

ClearCache(kept) ==
    LET s == clear_cache(Cache)
    IN /\ slot' = s.slot
       /\ memo' = s.memo
       /\ pslot' = s.pslot
       /\ pmemo' = s.pmemo
       /\ computed' = s.computed
       /\ last' = [op |-> "clear_cache", chart |-> 0, ret |-> None,
                   err |-> "ok", kept |-> kept]
       /\ UNCHANGED <<cvars, tensor, indices, nvars, fvars>>

\* N.clear_cache(), the caller holding no reference to an earlier result.
CallClearCache == ClearCache(NoKept)

\* r = N.q(...); N.clear_cache(): the caller holds the result of the call
\* right before.
CallClearCacheKeeping ==
    /\ last.err = "ok"
    /\ last.ret # None
    /\ ClearCache(<<last.op, last.chart, last.ret>>)

Next ==
    \/ CallAmbientMetric
    \/ CallFirstFundamentalForm
    \/ CallDifft
    \/ CallGradt
    \/ CallNormal
    \/ CallLapse
    \/ CallShift
    \/ CallAmbientFirstFundamentalForm
    \/ CallAmbientSecondFundamentalForm
    \/ CallSecondFundamentalForm
    \/ CallProjector
    \/ CallShapeOperator
    \/ CallGaussCurvature
    \/ CallMeanCurvature
    \/ CallPrincipalDirections
    \/ CallPrincipalCurvatures
    \/ CallProject
    \/ CallMixedProjection
    \/ CallClearCache

vars == <<dim_foliation, embedded, ambient_structure, sgn, top, dim, sindex,
          gvv, slot, memo, pslot, pmemo, computed, last, tensor, indices,
          nvars, fvars>>

\* The doctest's N.mixed_projection(g, [0]): g is of type (0, 2).
MetricType == <<0, 2>>
FirstIndex == ListIndices(<<0>>)

\* Every method, in any order.
Init == InitCache({MetricType}, {FirstIndex})
Spec == Init /\ [][Next]_vars

\* The projections applied to every tensor type and index argument within
\* the bounds, on a cache that normal(), projector() and clear_cache() vary.
InitProj == InitCache(TensorTypes, IndexArgs)
NextProj ==
    \/ CallProject
    \/ CallMixedProjection
    \/ CallNormal
    \/ CallProjector
    \/ CallClearCache
SpecProj == InitProj /\ [][NextProj]_vars

\* r = N.q(); N.clear_cache(); N.q(): the methods called while the caller
\* holds on to what it got before clear_cache().
NextKeep ==
    \/ CallFirstFundamentalForm
    \/ CallNormal
    \/ CallAmbientSecondFundamentalForm
    \/ CallMeanCurvature
    \/ CallClearCacheKeeping
SpecKeep == Init /\ [][NextKeep]_vars

\* The curvatures on submanifolds of every dimension, start index and set
\* of top charts within the bounds.
TopSubsets == SUBSET Charts \ {{}}
PseudoRiemannian == {"Riemannian", "Lorentzian"}

InitCurv ==
    /\ tensor = MetricType
    /\ indices = FirstIndex
    /\ dim_foliation = 1
    /\ embedded = TRUE
    /\ ambient_structure \in PseudoRiemannian
    /\ sgn = Sgn(ambient_structure)
    /\ top \in TopSubsets
    /\ dim \in 1..MaxDim
    /\ sindex \in 0..MaxStart
    /\ gvv = sgn
    /\ slot = EmptySlots
    /\ memo = EmptyMemos
    /\ pslot = EmptyP
    /\ pmemo = EmptyP
    /\ computed = NotComputed
    /\ last = NoCall
    /\ NoTraversal
    /\ NoElement
NextCurv ==
    \/ CallShapeOperator
    \/ CallGaussCurvature
    \/ CallMeanCurvature
    \/ CallPrincipalDirections
    \/ CallPrincipalCurvatures
    \/ CallClearCache
SpecCurv == InitCurv /\ [][NextCurv]_vars

\* The normal and what is built on it, with and without foliation, for
\* every metric square of the normal direction within the bounds: positive
\* in a Riemannian ambient manifold, of either sign otherwise.
NormalSquares(structure) ==
    {x \in (-MaxNorm)..MaxNorm :
        x # 0 /\ (structure = "Riemannian" => x > 0)}

InitUnit ==
    /\ tensor = MetricType
    /\ indices = FirstIndex
    /\ dim_foliation \in {0, 1}
    /\ embedded = TRUE
    /\ ambient_structure \in PseudoRiemannian
    /\ sgn = Sgn(ambient_structure)
    /\ top \in TopSets
    /\ dim = 2
    /\ sindex = 0
    /\ gvv \in NormalSquares(ambient_structure)
    /\ slot = EmptySlots
    /\ memo = EmptyMemos
    /\ pslot = EmptyP
    /\ pmemo = EmptyP
    /\ computed = NotComputed
    /\ last = NoCall
    /\ NoTraversal
    /\ NoElement
NextUnit ==
    \/ CallGradt
    \/ CallLapse
    \/ CallNormal
    \/ CallAmbientFirstFundamentalForm
    \/ CallProjector
    \/ CallClearCache
SpecUnit == InitUnit /\ [][NextUnit]_vars

\* The constructor.  ambient_structure stands for the argument "ambient" of
\* __init__: the structure of the manifold handed over, or NoAmbient for
\* ambient=None, the default; sgn is 0 as long as self._sgn is not set.
NoAmbient == "None"
AttributeError == "'NoneType' object has no attribute '_structure'"

\* The last statement of __init__, which reads the argument ambient:
\* self._sgn = 1 if ambient._structure.name == "Riemannian" else -1
init_sgn(ambient) ==
    IF ambient = NoAmbient
    THEN [e |-> AttributeError, sgn |-> 0]
    ELSE [e |-> "ok", sgn |-> Sgn(ambient)]

Constructed == sgn # 0

InitNew ==
    /\ tensor = MetricType
    /\ indices = FirstIndex
    /\ dim_foliation \in {0, 1}
    /\ embedded \in BOOLEAN
    /\ ambient_structure \in Structures \cup {NoAmbient}
    /\ sgn = 0
    /\ top \in TopSets
    /\ dim = 2
    /\ sindex = 0
    /\ gvv = 1
    /\ slot = EmptySlots
    /\ memo = EmptyMemos
    /\ pslot = EmptyP
    /\ pmemo = EmptyP
    /\ computed = NotComputed
    /\ last = NoCall
    /\ NoTraversal
    /\ NoElement

\* Manifold(n, name, ambient=..., structure=...): __init__ runs once.
CallInit ==
    /\ last.op = "none"
    /\ ~Constructed
    /\ sgn' = init_sgn(ambient_structure).sgn
    /\ last' = [NoCall EXCEPT !.op = "__init__",
                              !.err = init_sgn(ambient_structure).e]
    /\ UNCHANGED <<dim_foliation, embedded, ambient_structure, top, dim,
                   sindex, gvv, cachevars, tensor, indices, nvars, fvars>>

\* The constructor, then the methods of the object it made.
NextNew ==
    \/ CallInit
    \/ (Constructed /\ CallAmbientMetric)
    \/ (Constructed /\ CallFirstFundamentalForm)
    \/ (Constructed /\ CallNormal)
    \/ (Constructed /\ CallClearCache)
SpecNew == InitNew /\ [][NextNew]_vars

\* The methods of an element, on every element and every grading of the
\* basis within the bounds; no submanifold takes part.
\* The basis indices are numbered by non-decreasing degree.
Gradings == {g \in [Basis -> Degrees] :
                \A i, j \in Basis : i <= j => g[i] <= g[j]}
DegreeArgs == (-1)..(MaxDegree + 1)

InitFiltered ==
    /\ element \in Elements
    /\ grading \in Gradings
    /\ result = NoResult
    /\ tensor = MetricType
    /\ indices = FirstIndex
    /\ dim_foliation = 0
    /\ embedded = FALSE
    /\ ambient_structure = "differentiable"
    /\ sgn = Sgn(ambient_structure)
    /\ top \in TopSets
    /\ Sphere
    /\ slot = EmptySlots
    /\ memo = EmptyMemos
    /\ pslot = EmptyP
    /\ pmemo = EmptyP
    /\ computed = NotComputed
    /\ last = NoCall
    /\ NoTraversal

CallElement(op, n, out) ==
    /\ result' = [op |-> op, n |-> n, out |-> out]
    /\ UNCHANGED <<element, grading, cvars, cachevars, last, tensor, indices,
                   nvars>>

CallIsHomogeneous ==
    CallElement("is_homogeneous", 0, Returns(is_homogeneous(element)))
CallDegree == CallElement("degree", 0, degree(element))
CallHomogeneousDegree ==
    CallElement("homogeneous_degree", 0, homogeneous_degree(element))
CallAlgebraDegree == CallElement("algebra_degree", 0, algebra_degree(element))
CallMaximalDegree == CallElement("maximal_degree", 0, maximal_degree(element))
CallHomogeneousComponent ==
    \E n \in DegreeArgs :
        CallElement("homogeneous_component", n,
                    Returns(homogeneous_component(element, n)))
CallTruncate ==
    \E n \in DegreeArgs :
        CallElement("truncate", n, Returns(truncate(element, n)))

NextFiltered ==
    \/ CallIsHomogeneous
    \/ CallDegree
    \/ CallHomogeneousDegree
    \/ CallAlgebraDegree
    \/ CallMaximalDegree
    \/ CallHomogeneousComponent
    \/ CallTruncate
SpecFiltered == InitFiltered /\ [][NextFiltered]_vars

\* normal() on an embedded submanifold without foliation, at the start of
\* the breadth-first exploration: self._normal is assigned, nothing else is
\* cached; every atlas within the bounds.
Forests == {p \in [AtlasCharts -> 0..MaxCharts] : \A c \in AtlasCharts : p[c] < c}
ChartPairs == {x \in AtlasCharts \X AtlasCharts : x[1] # x[2]}
\* What one transition map stores: (c1, c2), with or without (c2, c1).
TransitionMaps == {{x} : x \in ChartPairs}
                  \cup {{x, <<x[2], x[1]>>} : x \in ChartPairs}
RECURSIVE ChangeSetsOf(_)
ChangeSetsOf(n) ==
    IF n = 0 THEN {{}}
    ELSE ChangeSetsOf(n - 1)
         \cup {S \cup m : S \in ChangeSetsOf(n - 1), m \in TransitionMaps}
ChangeSets == ChangeSetsOf(MaxMaps)

InitNormal ==
    /\ tensor = MetricType
    /\ indices = FirstIndex
    /\ dim_foliation = 0
    /\ embedded = TRUE
    /\ ambient_structure = "Riemannian"
    /\ sgn = Sgn(ambient_structure)
    /\ top \in TopSets
    /\ Sphere
    /\ slot = [EmptySlots EXCEPT !["normal"] = <<"normal", 0, 1>>]
    /\ memo = EmptyMemos
    /\ pslot = EmptyP
    /\ pmemo = EmptyP
    /\ computed = NotComputed
    /\ last = NoCall
    /\ parent \in Forests
    /\ coord_changes \in ChangeSets
    /\ marked = {}
    /\ f = <<>>
    /\ pc = "for"
    /\ ti = 1
    /\ how = [c \in AtlasCharts |-> <<>>]
    /\ puts = [c \in AtlasCharts |-> 0]
    /\ NoElement

\* What a step of the traversal leaves alone.
others == <<cvars, cachevars, last, tensor, indices, fvars>>

NextNormal ==
    \/ (ForTopChart /\ UNCHANGED others)
    \/ (WhileGet /\ UNCHANGED others)
    \/ (WhileExit /\ UNCHANGED others)
    \/ (GoingUp /\ UNCHANGED others)

SpecNormal == InitNormal /\ [][NextNormal]_vars

\* normal() is one sequential call: it keeps running until it returns.
SpecNormalFair == SpecNormal /\ WF_vars(NextNormal)

(***************************************************************************)
(* Properties of the cache machine.                                        *)
(***************************************************************************)

\* The accessors that answer from the cached_method cache, and those that
\* answer from their attribute.
MemoAccessors == MemoNames
SlotAccessors == {"ambient_metric", "first_fundamental_form",
                  "ambient_first_fundamental_form", "second_fundamental_form",
                  "ambient_second_fundamental_form"}
Accessors == MemoAccessors \cup SlotAccessors \cup PNames
ChartsOf(q) == IF q \in PNames THEN Charts ELSE {0}

\* The object accessor q answers with when it does not compute (None: it
\* computes), before and after a step.
Stored(q, c) ==
    IF q \in MemoAccessors THEN memo[q]
    ELSE IF q \in SlotAccessors THEN slot[q]
    ELSE pmemo[q][c]
StoredNext(q, c) ==
    IF q \in MemoAccessors THEN memo'[q]
    ELSE IF q \in SlotAccessors THEN slot'[q]
    ELSE pmemo'[q][c]

\* C1: after clear_cache() returns, no derived quantity is cached any more:
\* every slot and every memoized accessor, the mean curvature and the
\* per-chart principal directions and curvatures included, is empty.
C1_ClearCacheForgetsAll ==
    last.op = "clear_cache" =>
        /\ slot = EmptySlots
        /\ memo = EmptyMemos
        /\ pslot = EmptyP
        /\ pmemo = EmptyP

\* C2: between two clear_cache() calls, calls of the same cached accessor
\* (same chart for principal_*) return the identical object.  Stated step
\* by step: an accessor that holds an object returns that very object; the
\* object a call returns is the one it holds afterwards; and no call other
\* than clear_cache() replaces or drops an object an accessor holds.
C2_SameObject ==
    [][/\ (last'.op \in Accessors /\ last'.chart \in ChartsOf(last'.op))
            => /\ Stored(last'.op, last'.chart) # None
                    => /\ last'.err = "ok"
                       /\ last'.ret = Stored(last'.op, last'.chart)
               /\ last'.err = "ok"
                    => /\ last'.ret # None
                       /\ StoredNext(last'.op, last'.chart) = last'.ret
       /\ last'.op # "clear_cache"
            => \A q \in Accessors : \A c \in ChartsOf(q) :
                   Stored(q, c) # None => StoredNext(q, c) = Stored(q, c)]_vars

\* shift() has requested normal() before; the caller's normal() gets the
\* object held since then.
C2_Witness ==
    /\ last.op = "normal"
    /\ last.err = "ok"
    /\ last.ret = memo["normal"]
    /\ slot["shift"] # None

\* C3: the first call of a cached accessor after clear_cache() returns an
\* object whose identity differs from the one the same accessor (same
\* chart) returned right before clear_cache().
C3_NewObjectAfterClear ==
    (last.kept # NoKept /\ last.kept[1] = last.op /\ last.kept[2] = last.chart
        /\ last.err = "ok")
        => last.ret # last.kept[3]

FoliationAccessors == {"difft", "gradt", "lapse", "shift"}

\* C7: with no foliation declared, every call of difft(), gradt(), lapse()
\* or shift() raises the foliation error, returns nothing, changes no slot
\* and no memo, and leaves its own slot and memo empty.
C7_FoliationNeeded ==
    [][(dim_foliation = 0 /\ last'.op \in FoliationAccessors)
          => /\ last'.err = FoliationNeeded
             /\ last'.ret = None
             /\ UNCHANGED cachevars
             /\ memo'[last'.op] = None
             /\ slot'[last'.op] = None]_vars

\* shift() refused on a submanifold whose cache is not empty.
C7_Witness ==
    /\ dim_foliation = 0
    /\ last.op = "shift"
    /\ last.err = FoliationNeeded
    /\ slot["ambient_metric"] # None

\* C8: ambient_metric() on a submanifold that is not embedded, or whose
\* ambient manifold is not pseudo-Riemannian, raises the embedding error
\* and leaves the ambient-metric slot (and every other one) as it was: empty.
C8_AmbientMetricRaises ==
    [][(last'.op = "ambient_metric"
            /\ (~embedded \/ ~AmbientIsPseudoRiemannian))
          => /\ last'.err = NotEmbedded
             /\ last'.ret = None
             /\ slot'["ambient_metric"] = None
             /\ UNCHANGED cachevars]_vars

\* ambient_metric() refused after first_fundamental_form() has left its
\* attribute behind.
C8_Witness ==
    /\ ~embedded
    /\ last.op = "ambient_metric"
    /\ last.err = NotEmbedded
    /\ slot["first_fundamental_form"] # None

\* The number of indices the caller asks to contract with the normal.
Requested(idx) == IF idx.int THEN idx.k ELSE Len(idx.l)

\* C9: mixed_projection raises "Too much contractions" exactly when the
\* number of requested indices exceeds the rank of the tensor, and then no
\* slot and no memo has changed.
C9_TooMuchContractions ==
    [][last'.op = "mixed_projection"
          => /\ (last'.err = TooMuch)
                    <=> (Requested(indices) > tensor[1] + tensor[2])
             /\ (last'.err = TooMuch) => UNCHANGED cachevars]_vars

\* A list longer than the rank, refused on a cache that holds the normal.
C9_Witness ==
    /\ last.op = "mixed_projection"
    /\ last.err = TooMuch
    /\ ~indices.int
    /\ memo["normal"] # None

SecondForms == {"second_fundamental_form", "ambient_second_fundamental_form"}

Linked(a, b) ==
    \/ b \in subcharts(a)
    \/ b \in supercharts(a)
    \/ <<a, b>> \in coord_changes
    \/ <<b, a>> \in coord_changes

RECURSIVE Component(_)
Component(S) ==
    LET more == {b \in AtlasCharts : \E a \in S : Linked(a, b)}
    IN IF more \subseteq S THEN S ELSE Component(S \cup more)

Direct(S) == {c \in S : \E i \in 1..Len(how[c]) : how[c][i] = "calc_normal"}

\* C4: when normal() is through, each connected component of the chart
\* graph holds exactly one chart whose components calc_normal computed;
\* the others got theirs by propagation.
C4_OncePerComponent ==
    pc = "done" =>
        \A c \in AtlasCharts : Cardinality(Direct(Component({c}))) = 1

\* C5: at every point of the traversal each chart has been put in the
\* queue at most once and has got at most one component-defining step, a
\* chart is marked exactly when it has got its step, and at the end every
\* chart has got exactly one.
C5_VisitedOnce ==
    \A c \in AtlasCharts :
        /\ puts[c] <= 1
        /\ Len(how[c]) <= 1
        /\ (c \in marked) <=> (Len(how[c]) = 1)
        /\ (pc = "done") => (Len(how[c]) = 1 /\ puts[c] = 1)

\* The traversal is through on an atlas where a chart is the subchart of
\* another and a coordinate change leads from that one to it as well.
C5_Witness ==
    /\ pc = "done"
    /\ \E v \in AtlasCharts : \E c \in subcharts(v) \ {v} :
          /\ <<v, c>> \in coord_changes
          /\ how[c] = <<"restriction">>

\* C6: the traversal terminates: normal() reaches its return statement.
C6_Terminates == <>(pc = "done")

\* Terminated on an atlas with mutual coordinate changes between two top
\* charts and a top chart linked to nothing.
C6_Witness ==
    /\ pc = "done"
    /\ Cardinality({c \in AtlasCharts : parent[c] = 0}) >= 2
    /\ \E a, b \in AtlasCharts :
          /\ <<a, b>> \in coord_changes
          /\ <<b, a>> \in coord_changes
    /\ \E c \in AtlasCharts : Component({c}) # AtlasCharts

(***************************************************************************)
(* Properties of the fundamental forms, the projections and the            *)
(* curvatures.                                                             *)
(***************************************************************************)

\* C11: between two clear_cache() calls each of the four fundamental forms
\* is computed at most once, with or without foliation: its attribute is
\* assigned a tensor at most once, however often the form is requested,
\* the repeated requests of the ambient second form by the foliated
\* second_fundamental_form included.
C11_FormsComputedOnce ==
    \A q \in FundamentalForms : computed[q] <= 1

\* With a foliation, second_fundamental_form() has returned: it requested
\* the ambient second form more than once and both forms were computed once.
C11_Witness ==
    /\ dim_foliation # 0
    /\ last.op = "second_fundamental_form"
    /\ last.err = "ok"
    /\ computed["second_fundamental_form"] = 1
    /\ computed["ambient_second_fundamental_form"] = 1
    /\ computed["first_fundamental_form"] = 1
    /\ computed["ambient_first_fundamental_form"] = 1

\* A list of distinct index positions of a tensor of rank k.
DistinctPositions(l, k) ==
    /\ \A j \in 1..Len(l) : l[j] \in 0..(k - 1)
    /\ \A i, j \in 1..Len(l) : i # j => l[i] # l[j]

\* The objects the submanifold holds in its attributes and caches.
Held ==
    {slot[q] : q \in SlotNames} \cup {memo[q] : q \in MemoNames}
    \cup {pslot[x][c] : x \in PNames, c \in Charts}
    \cup {pmemo[x][c] : x \in PNames, c \in Charts}

\* C12: on a tensor of rank k > 0 and any list of distinct positions from
\* 0..k-1 (an integer m standing for 0..m-1, the default 0 for none),
\* mixed_projection returns a tensor of rank k - len(indices), obtained by
\* contracting exactly the listed positions with the normal and every
\* other position with a projector of its own.
C12_MixedProjectionContracts ==
    LET k == tensor[1] + tensor[2]
        l == IndicesList(indices)
        r == mixed_contraction(tensor[1], tensor[2], l)
    IN (/\ last.op = "mixed_projection"
        /\ embedded
        /\ AmbientIsPseudoRiemannian
        /\ k > 0
        /\ DistinctPositions(l, k))
       => /\ last.err = "ok"
          /\ r.rank = k - Len(l)
          /\ \A t \in 1..k :
                 r.with[t].kind = IF InList(t - 1, l) THEN "normal"
                                                     ELSE "projector"
          /\ \A t, u \in 1..k : t # u => r.with[t].of # r.with[u].of

\* C13: project(tensor) returns a tensor of the type (p, q) of its argument
\* in which every index position of the argument, contravariant or
\* covariant, has been contracted exactly once with the projector, for
\* every valence, mixed ones included; what it returns is not held in any
\* attribute or cache of the submanifold.
C13_ProjectContractsEachIndexOnce ==
    LET k == tensor[1] + tensor[2]
        r == project_indices(tensor[1], tensor[2])
    IN (/\ last.op = "project"
        /\ embedded
        /\ AmbientIsPseudoRiemannian)
       => /\ last.err = "ok"
          /\ Len(r.x) = k
          /\ Len(Ups(r.x)) = tensor[1]
          /\ \A t \in 0..(k - 1) :
                 \E i \in 1..k : /\ r.x[i].of = t
                                  /\ r.x[i].kind = 1
                                  /\ r.x[i].up = (t < tensor[1])
          /\ last.ret \notin Held

\* C14: principal_curvatures(chart) returns exactly n scalar fields, n the
\* dimension of the submanifold, named k_0 .. k_{n-1} in the order in which
\* the eigen-solver returned the eigenvalues, for every dimension and every
\* start index of the index range.
C14_PrincipalCurvaturesNamed ==
    (last.op = "principal_curvatures")
    => /\ last.err = "ok"
       /\ principal_curvatures_value(last.chart)
              = [i \in 1..dim |-> [name |-> <<"k", i - 1>>,
                                   expr |-> <<"eigenvalue", last.chart, i>>]]

C16_GaussCurvatureExpression ==
    (last.op = "gauss_curvature" /\ last.err = "ok")
    => /\ DOMAIN gauss_curvature_value = top
       /\ \A chart \in top :
              gauss_curvature_value[chart]
                  = <<"determinant", "shape_operator", chart>>

\* gauss_curvature() has returned on a submanifold with several top charts.
C16_Witness ==
    /\ last.op = "gauss_curvature"
    /\ last.err = "ok"
    /\ Cardinality(top) > 1
    /\ last.ret = memo["gauss_curvature"]

\* C17: with a foliation declared, the normal sigma * lapse * gradt, lapse
\* being 1 / sqrt(sigma * g(gradt, gradt)), has g(normal, normal) = sigma,
\* for sigma = 1 and for sigma = -1.
C17_NormalIsUnit ==
    (last.op = "normal" /\ last.err = "ok" /\ dim_foliation # 0)
    => FracEq(normal_square, Whole(Sgn(ambient_structure)))

\* normal() has returned with a foliation in a Lorentzian ambient manifold
\* (sigma = -1), the gradient of the parameter being timelike.
C17_Witness ==
    /\ last.op = "normal"
    /\ last.err = "ok"
    /\ dim_foliation # 0
    /\ sgn = -1
    /\ gvv < 0
    /\ memo["lapse"] # None
    /\ memo["gradt"] # None

\* C18: for every embedding, with or without foliation, projector()
\* contracted with normal() is the zero vector.
C18_ProjectorAnnihilatesNormal ==
    (last.op = "projector" /\ last.err = "ok")
    => FracEq(projector_on_normal, Whole(0))

\* C19: the sign sigma is 1 exactly when the structure of the ambient
\* manifold is Riemannian and -1 otherwise; it is set at construction and
\* no call, clear_cache() included, changes it.
C19_SignOfSignature ==
    /\ [](sgn = IF ambient_structure = "Riemannian" THEN 1 ELSE -1)
    /\ [][sgn' = sgn]_vars

\* In a Lorentzian ambient manifold the ambient first fundamental form,
\* which reads the sign, has been computed after a clear_cache() that
\* followed mean_curvature().
C19_Witness ==
    /\ last.op = "ambient_first_fundamental_form"
    /\ last.err = "ok"
    /\ memo["mean_curvature"] # None
    /\ slot["shape_operator"] = None
    /\ ambient_structure = "Lorentzian"
    /\ sgn = -1

\* C20: clear_cache() forgets derived state only: the foliation
\* (dim_foliation), the embedded flag, the atlas and its coordinate
\* changes, the dimension and index range, and the sign sigma are after
\* clear_cache() what they were before.
C20_ClearCacheKeepsEmbedding ==
    [][last'.op = "clear_cache"
       => UNCHANGED <<dim_foliation, embedded, ambient_structure, sgn, top,
                      dim, sindex, parent, coord_changes>>]_vars

\* clear_cache() has returned on an embedded submanifold with a foliation
\* that had its derived quantities computed: the mean curvature is still
\* there to tell.
C20_Witness ==
    /\ last.op = "clear_cache"
    /\ dim_foliation # 0
    /\ embedded
    /\ memo["mean_curvature"] # None
    /\ slot = EmptySlots

(***************************************************************************)
(* Properties of the per-chart caches.                                     *)
(***************************************************************************)

\* C21: principal_directions and principal_curvatures are memoized per
\* chart: a call for one chart that computes makes an entry of its own, an
\* object no other chart's entry holds, and every call leaves the entries
\* of the other charts as they were; a chart whose entry is there gets that
\* very object back.
C21_PerChartEntries ==
    [][(last'.op \in PNames /\ last'.err = "ok")
          => /\ \A c \in Charts \ {last'.chart} :
                    /\ pmemo'[last'.op][c] = pmemo[last'.op][c]
                    /\ pslot'[last'.op][c] = pslot[last'.op][c]
                    /\ pmemo'[last'.op][c] # last'.ret
             /\ pmemo'[last'.op][last'.chart] = last'.ret
             /\ pmemo[last'.op][last'.chart] # None
                    => last'.ret = pmemo[last'.op][last'.chart]]_vars

\* principal_curvatures has answered for the first chart while the entry
\* of the second chart and both entries of principal_directions are there.
C21_Witness ==
    /\ last.op = "principal_curvatures"
    /\ last.chart = 1
    /\ last.err = "ok"
    /\ last.ret = pmemo["principal_curvatures"][1]
    /\ pmemo["principal_curvatures"][2] # None
    /\ pmemo["principal_directions"][1] # None
    /\ pmemo["principal_directions"][2] # None

(***************************************************************************)
(* Properties of the elements of filtered modules and algebras.            *)
(***************************************************************************)

DegreeMethods == {"degree", "homogeneous_degree", "algebra_degree",
                  "maximal_degree"}

\* C22: on the zero element degree(), homogeneous_degree() and
\* maximal_degree() raise "the zero element does not have a well-defined
\* degree", never "element is not homogeneous", while is_homogeneous() of
\* zero returns True; on any other element they do not raise the error of
\* the zero element.
C22_ZeroHasNoDegree ==
    /\ (result.op \in DegreeMethods)
          => /\ (element = zero) <=> (result.out.e = ZeroDegree)
             /\ (element = zero) => (result.out.e # NotHomogeneous)
    /\ (result.op = "is_homogeneous" /\ element = zero)
          => result.out = Returns(TRUE)

\* maximal_degree() has refused the zero element.
C22_Witness ==
    /\ element = zero
    /\ result.op = "maximal_degree"
    /\ result.out.e = ZeroDegree

\* The terms of x whose degree satisfies Keep, as coefficients.
Kept(x, Keep(_)) == [m \in Basis |-> IF Keep(grading[m]) THEN x[m] ELSE 0]

\* a + b in the parent.
Plus(a, b) == InParent([m \in Basis |-> a.coeff[m] + b.coeff[m]])

\* C23: truncate(n) keeps exactly the terms of degree strictly less than n
\* and homogeneous_component(n) exactly the terms of degree n, for every
\* element and every integer n; so truncate(n+1) = truncate(n) +
\* homogeneous_component(n), and truncate(0) is zero when no degree is
\* negative; both return an element of the parent, its zero when no term
\* matches.
C23_TruncateAndComponent ==
    /\ (result.op = "truncate")
          => /\ result.out.e = "ok"
             /\ result.out.r
                    = InParent(Kept(element, LAMBDA d : d < result.n))
             /\ truncate(element, result.n + 1)
                    = Plus(result.out.r,
                           homogeneous_component(element, result.n))
             /\ (\A m \in Basis : grading[m] >= 0)
                    => truncate(element, 0) = InParent(zero)
    /\ (result.op = "homogeneous_component")
          => /\ result.out.e = "ok"
             /\ result.out.r
                    = InParent(Kept(element, LAMBDA d : d = result.n))

\* truncate(n) has kept one term of the element and dropped another.
C23_Witness ==
    /\ result.op = "truncate"
    /\ \E m \in Basis : element[m] # 0 /\ grading[m] < result.n
    /\ \E m \in Basis : element[m] # 0 /\ grading[m] = result.n
    /\ result.out.r.coeff # zero
    /\ result.out.r.coeff # element

(***************************************************************************)
(* Properties of the constructor, of the dependencies between the cached   *)
(* quantities and of the modes of normal().                                *)
(***************************************************************************)

\* C24: constructing the submanifold with ambient=None, the documented
\* default, succeeds.
C24_DefaultAmbientConstructs ==
    (last.op = "__init__" /\ ambient_structure = NoAmbient)
        => (last.err = "ok" /\ Constructed)

\* C25: in every reachable state a cached quantity has everything it was
\* computed from cached as well: shift has lapse and normal; the normal of
\* a foliation has lapse, gradt and difft; the Gauss and mean curvatures
\* and the principal directions and curvatures have the shape operator;
\* the mean curvature has principal_curvatures for every top chart.
C25_DependenciesCached ==
    /\ memo["shift"] # None
          => (memo["lapse"] # None /\ memo["normal"] # None)
    /\ (dim_foliation # 0 /\ memo["normal"] # None)
          => (memo["lapse"] # None /\ memo["gradt"] # None
                 /\ memo["difft"] # None)
    /\ (memo["gauss_curvature"] # None \/ memo["mean_curvature"] # None)
          => memo["shape_operator"] # None
    /\ \A x \in PNames : \A c \in Charts :
          pmemo[x][c] # None => memo["shape_operator"] # None
    /\ memo["mean_curvature"] # None
          => \A c \in top : pmemo["principal_curvatures"][c] # None

\* C26: once shape_operator() has been computed, the attribute
\* _shape_operator holds that same object until clear_cache(), whatever
\* other accessor is called: no accessor writes the attribute of another.
C26_ShapeOperatorSlotKept ==
    [][(slot["shape_operator"] # None /\ last'.op # "clear_cache")
          => slot'["shape_operator"] = slot["shape_operator"]]_vars

\* C27: when the unfoliated normal() gets to the final extension from the
\* top charts to the whole manifold, every chart of the atlas, each being
\* a top chart or a subchart of one, has been visited: it is marked, its
\* components were computed or propagated to it, and the queue is empty.
C27_EveryChartVisited ==
    [][pc' = "done"
          => /\ marked = AtlasCharts
             /\ f = <<>>
             /\ \A c \in AtlasCharts :
                    /\ c \in supercharts(c)
                    /\ \E v \in supercharts(c) : parent[v] = 0
                    /\ how[c] # <<>>]_vars

\* normal() has returned on an atlas with two top charts that no
\* coordinate change links, one of them with a subchart that has a
\* subchart of its own.
C27_Witness ==
    /\ pc = "done"
    /\ coord_changes = {}
    /\ Cardinality({c \in AtlasCharts : parent[c] = 0}) = 2
    /\ \E c \in AtlasCharts : parent[c] # 0 /\ how[c] = <<"restriction">>
    /\ marked = AtlasCharts

\* C29: when the computation of a fundamental form fails part-way, as
\* first_fundamental_form() and the unfoliated
\* ambient_second_fundamental_form() do when ambient_metric() raises, the
\* attribute of the form is still empty afterwards.
C29_FailedFormLeavesNoSlot ==
    (last.op \in FundamentalForms /\ last.err # "ok")
        => slot[last.op] = None

\* The functions called, directly or not, in the course of the call r.
Called(r) == {e[2] : e \in r.s.trace.calls}

\* C28: the two modes of normal() exclude each other within one
\* computation: with a foliation declared normal() runs neither
\* calc_normal nor the exploration of the charts, and without a foliation
\* it calls none of lapse(), gradt() and difft(); a normal() that computes
\* runs the part of its own mode.
C28_ModesExclusive ==
    [][last'.op = "normal"
          => /\ dim_foliation # 0
                    => Called(normal(Cache))
                           \cap {"calc_normal", "breadth_first"} = {}
             /\ dim_foliation = 0
                    => Called(normal(Cache))
                           \cap {"lapse", "gradt", "difft"} = {}
             /\ (memo["normal"] = None /\ dim_foliation # 0)
                    => {"lapse", "gradt"} \subseteq Called(normal(Cache))
             /\ (memo["normal"] = None /\ dim_foliation = 0)
                    => {"calc_normal", "breadth_first"}
                           \subseteq Called(normal(Cache))]_vars

\* normal() has computed the normal of a foliation in a Lorentzian ambient
\* manifold on a cache that held the ambient metric only.
C28_Witness ==
    /\ last.op = "normal"
    /\ last.err = "ok"
    /\ dim_foliation # 0
    /\ sgn = -1
    /\ last.ret = slot["normal"]
    /\ slot["lapse"] # None
    /\ slot["ambient_first_fundamental_form"] = None

\* What the call of accessor q (for chart c) on the cache s comes to.
Outcome(q, c, s) ==
    CASE q = "ambient_metric" -> ambient_metric(s)
      [] q = "first_fundamental_form" -> first_fundamental_form(s)
      [] q = "difft" -> difft(s)
      [] q = "gradt" -> gradt(s)
      [] q = "normal" -> normal(s)
      [] q = "lapse" -> lapse(s)
      [] q = "shift" -> shift(s)
      [] q = "ambient_first_fundamental_form"
            -> ambient_first_fundamental_form(s)
      [] q = "ambient_second_fundamental_form"
            -> ambient_second_fundamental_form(s)
      [] q = "second_fundamental_form" -> second_fundamental_form(s)
      [] q = "projector" -> projector(s)
      [] q = "shape_operator" -> shape_operator(s)
      [] q = "gauss_curvature" -> gauss_curvature(s)
      [] q = "mean_curvature" -> mean_curvature(s)
      [] q = "principal_directions" -> principal_directions(s, c)
      [] q = "principal_curvatures" -> principal_curvatures(s, c)

\* The cache right after construction or clear_cache().
EmptyCache == [Cache EXCEPT !.slot = EmptySlots, !.memo = EmptyMemos,
                            !.pslot = EmptyP, !.pmemo = EmptyP]

\* The call graph of the mode the submanifold is in: who calls whom when
\* each accessor is called on an empty cache.
CallGraph ==
    {e \in UNION {UNION {Outcome(q, c, EmptyCache).s.trace.calls :
                            c \in ChartsOf(q)} : q \in Accessors} :
        e[1] # "caller"}

RECURSIVE ReachedFrom(_, _)
ReachedFrom(S, G) ==
    LET more == {e[2] : e \in {x \in G : x[1] \in S}}
    IN IF more \subseteq S THEN S ELSE ReachedFrom(S \cup more, G)

Acyclic(G) ==
    \A e \in G : e[1] \notin ReachedFrom({e[2]}, G)

\* C30: in each mode the call graph among the lazy accessors is acyclic,
\* and on every cache every accessor call returns (or raises) without the
\* accessor being called again while it runs; with a foliation
\* second_fundamental_form calls ambient_second_fundamental_form and not
\* the other way round, without a foliation it is the reverse.
C30_CallGraphAcyclic ==
    /\ Acyclic(CallGraph)
    /\ \A q \in Accessors : \A c \in ChartsOf(q) :
          /\ ~Outcome(q, c, Cache).s.trace.reentered
          /\ Outcome(q, c, Cache).s.trace.stack = <<>>
    /\ <<"second_fundamental_form", "ambient_second_fundamental_form">>
          \in CallGraph <=> dim_foliation # 0
    /\ <<"ambient_second_fundamental_form", "second_fundamental_form">>
          \in CallGraph <=> dim_foliation = 0

\* Without a foliation ambient_second_fundamental_form() has returned on
\* a cache that clear_cache() had emptied before: it called
\* second_fundamental_form().
C30_Witness ==
    /\ dim_foliation = 0
    /\ last.op = "ambient_second_fundamental_form"
    /\ last.err = "ok"
    /\ last.kept # NoKept
    /\ slot["second_fundamental_form"] # None
    /\ slot["ambient_second_fundamental_form"] = last.ret

====
